---- MODULE Spec2Model ----
(***************************************************************************)
(* Model of bom-cpl-plugin.py: the supplier registry, the Part record,     *)
(* parseXml, the sort done by __main__, writeCsv, rewriteCsv / copyCsv and *)
(* the console report.                                                     *)
(*                                                                         *)
(* Python values: None is the string None below; an XML element or field   *)
(* that is not there is Absent; an element that is there with no text has  *)
(* text None (ElementTree).  A csv file is the sequence of its rows, a row *)
(* the sequence of its cells (what csv.reader yields, csv.writer takes).   *)
(***************************************************************************)
EXTENDS Integers, Sequences, FiniteSets, TLC

None == "<None>"
Absent == "<absent>"

(* ------------------------------ bounds -------------------------------- *)
MaxComps == 3
MaxRows == 2
MaxCalls == 2
MaxCols == 8

(* ----------------------------- registry ------------------------------- *)
g_bomext == "BOM"
g_cplext == "CPL"
g_posfiles == <<"all-pos", "top-pos", "bottom-pos">>

DefaultFields ==
    << <<"Quantity", "Quantity">>,
       <<"Manufacture Part Number", "PartNumber">>,
       <<"Manufacturer", "Manufacturer">>,
       <<"Description", "ref">>,
       <<"Supplier Part Number", "SupplierRef">>,
       <<"Package", "footprint">> >>

JlcpcbFields ==
    << <<"Comment", "value">>,
       <<"Designator", "ref">>,
       <<"Footprint", "footprint">>,
       <<"LCSC Part #", "SupplierRef">> >>

LcscFields ==
    << <<"Quantity", "Quantity">>,
       <<"Manufacture Part Number", "PartNumber">>,
       <<"Manufacturer", "Manufacturer">>,
       <<"Description", "ref">>,
       <<"LCSC Part Number", "SupplierRef">>,
       <<"Package", "footprint">> >>

JlcpcbCplHeaders ==
    (0 :> "Designator") @@ (3 :> "Mid X") @@ (4 :> "Mid Y")
        @@ (5 :> "Rotation") @@ (6 :> "Layer")

g_suppliers ==
    [ Default |-> [ fields |-> DefaultFields,
                    equal |-> <<"PartNumber", "SupplierRef">>,
                    sorted |-> <<"Manufacturer", "PartNumber">>,
                    grouped |-> TRUE,
                    generatecpl |-> FALSE ],
      JLCPCB  |-> [ fields |-> JlcpcbFields,
                    equal |-> <<"ref">>,
                    sorted |-> <<"SupplierRef">>,
                    grouped |-> FALSE,
                    generatecpl |-> TRUE,
                    cplheaders |-> JlcpcbCplHeaders ],
      LCSC    |-> [ fields |-> LcscFields,
                    equal |-> <<"PartNumber", "SupplierRef">>,
                    sorted |-> <<"Manufacturer", "PartNumber">>,
                    grouped |-> TRUE,
                    generatecpl |-> FALSE ] ]

(* A lookup g_suppliers[supplier][key]: the value, or KeyError when the    *)
(* profile has no such key.                                                *)
Returned(v) == [exc |-> "", val |-> v]
Raised(e) == [exc |-> e, val |-> None]

Subscript(supplier, key) ==
    IF key \in DOMAIN g_suppliers[supplier]
    THEN Returned(g_suppliers[supplier][key])
    ELSE Raised("KeyError")

getEqualCall(supplier) ==
    IF supplier \in DOMAIN g_suppliers
    THEN Subscript(supplier, "equal")
    ELSE Subscript("Default", "equal")

getSortedCall(supplier) ==
    IF supplier \in DOMAIN g_suppliers
    THEN Subscript(supplier, "sorted")
    ELSE Subscript("Default", "sorted")

needGroupingCall(supplier) ==
    IF supplier \in DOMAIN g_suppliers
    THEN Subscript(supplier, "grouped")
    ELSE Subscript("Default", "grouped")

getFieldsCall(supplier) ==
    IF supplier \in DOMAIN g_suppliers
    THEN Subscript(supplier, "fields")
    ELSE Subscript("Default", "fields")

generateCplCall(supplier) ==
    IF supplier \in DOMAIN g_suppliers
    THEN Subscript(supplier, "generatecpl")
    ELSE Subscript("Default", "generatecpl")

getHeadersCall(supplier) ==
    IF supplier \in DOMAIN g_suppliers
    THEN Subscript(supplier, "cplheaders")
    ELSE Returned(<<>>)

getEqual(supplier) == getEqualCall(supplier).val
getSorted(supplier) == getSortedCall(supplier).val
needGrouping(supplier) == needGroupingCall(supplier).val
getFields(supplier) == getFieldsCall(supplier).val
generateCpl(supplier) == generateCplCall(supplier).val
getHeaders(supplier) == getHeadersCall(supplier).val

(* str.title() and str.upper() on the vendor names of the model.           *)
title(s) ==
    CASE s = "JLCPCB" -> "Jlcpcb"
      [] s = "LCSC" -> "Lcsc"
      [] s = "ACME" -> "Acme"
      [] OTHER -> s

upper(s) ==
    CASE s = "jlcpcb" -> "JLCPCB"
      [] s = "Acme" -> "ACME"
      [] OTHER -> s

getInput(path, post) == path \o "-" \o post \o "." \o "csv"

getInputs(path) == [i \in 1..Len(g_posfiles) |-> getInput(path, g_posfiles[i])]

getOutput(path, supplier, post) ==
    path \o "_" \o title(supplier) \o "_" \o post \o "." \o "csv"

(* ------------------------------- state -------------------------------- *)
VARIABLES
    pc,          \* where the run is: "parse", "main", "report", "rewrite",
                 \* "cplreport", "done", "failed" ("copy", "lookup": single calls)
    python,      \* the major version of the interpreter running the script
    path,        \* sys.argv[2], the output prefix
    n,           \* components read from the netlist so far
    current,     \* the component read last
    suppliers,   \* parseXml: suppliers
    parts,       \* parseXml: parts
    missings,    \* parseXml: missings
    accepted,    \* the Parts setCustomFields returned True for, in order
    sortedParts, \* sorted(parts) as handed to writeCsv
    leftover,    \* what writeCsv left of that list
    files,       \* the csv files written: file name -> rows
    fs,          \* the position files: file name -> rows, or Absent
    opened,      \* the position files copyCsv opened: <<supplier, name>>
    rewrited,    \* rewriteCsv: rewrited
    console,     \* the lines printed
    error,       \* the exception that ended the run and where it was raised
    calls        \* registry lookups made: [fn, supplier, exc, val]

vars == << pc, python, path, n, current, suppliers, parts, missings, accepted,
           sortedParts, leftover, files, fs, opened, rewrited, console, error,
           calls >>

NoError == [exc |-> "", at |-> ""]

(* ------------------------------- inputs ------------------------------- *)
PythonVersions == {2, 3}
Prefixes == {"out/board"}
RefNames == {"R1", "R2"}
FieldNames == {"Supplier", "Manufacturer", "PartNumber", "SupplierRef", "ref"}

Fields(s, m, p, r, f) ==
    [Supplier |-> s, Manufacturer |-> m, PartNumber |-> p, SupplierRef |-> r,
     ref |-> f]

Component(ref, value, footprint, fields) ==
    [ref |-> ref, value |-> value, footprint |-> footprint, fields |-> fields]

NoComponent ==
    Component(Absent, Absent, Absent, Fields(Absent, Absent, Absent, Absent, Absent))

SupplierTexts == {Absent, None, "jlcpcb", "LCSC", "Acme"}

(* The netlists of SpecParse: a missing, empty or set Supplier; a missing, *)
(* empty or set PartNumber and SupplierRef; a custom field named "ref";    *)
(* a missing or empty value and footprint element.                         *)
ParseComponents ==
    { Component(r, "10k", "Resistor_SMD:R_0603", Fields(s, Absent, "P1", "C1", Absent)) :
        r \in RefNames, s \in SupplierTexts }
    \cup
    { Component("R1", "10k", "Resistor_SMD:R_0603", Fields(s, Absent, p, sr, Absent)) :
        s \in {"jlcpcb", "LCSC", "Acme"}, p \in {Absent, None, "P1"},
        sr \in {Absent, None, "C1"} }
    \cup
    { Component("R1", "10k", "Resistor_SMD:R_0603", Fields(s, Absent, p, "C1", f)) :
        s \in {"jlcpcb", "LCSC"}, p \in {Absent, "P1"}, f \in {None, "X9"} }
    \cup
    { Component("R1", v, fp, Fields("LCSC", "MA", "P1", "C1", Absent)) :
        v \in {Absent, None}, fp \in {Absent, None} }

(* The netlists of Spec: two LCSC parts that differ in both sort keys, a   *)
(* JLCPCB part, a part of an unregistered vendor, a component without a    *)
(* Supplier, one with an empty Supplier, and a rejected component whose    *)
(* custom field "ref" is empty.                                            *)
MainComponents ==
    { Component("R1", "10k", "Resistor_SMD:R_0603", Fields("LCSC", "MB", "P1", "C1", Absent)),
      Component("R2", "10k", "Resistor_SMD:R_0603", Fields("LCSC", "MA", "P2", "C1", Absent)),
      Component("R1", "10k", "Resistor_SMD:R_0603", Fields("jlcpcb", Absent, Absent, "C1", Absent)),
      Component("R1", "10k", Absent, Fields("Acme", Absent, "P1", "C1", Absent)),
      Component("R2", "10k", Absent, Fields(Absent, Absent, "P1", "C1", Absent)),
      Component("R2", "10k", Absent, Fields(None, Absent, "P1", "C1", Absent)),
      Component("R2", "10k", Absent, Fields("Acme", Absent, Absent, "C1", None)) }

(* ------------------------------ class Part ---------------------------- *)
(* footprint.text.split(':').pop()                                         *)
splitPop(text) ==
    CASE text = "Resistor_SMD:R_0603" -> "R_0603"
      [] OTHER -> text

(* Part.__init__ raises AttributeError on None.split / None.upper.         *)
PartRaises(component) ==
    \/ component.footprint = None
    \/ component.fields["Supplier"] = None

Part(component) ==
    [ ref |-> component.ref,
      value |-> IF component.value # Absent THEN component.value ELSE "",
      footprint |-> IF component.footprint # Absent
                    THEN splitPop(component.footprint) ELSE "",
      Supplier |-> IF component.fields["Supplier"] # Absent
                   THEN upper(component.fields["Supplier"]) ELSE None,
      Manufacturer |-> "",
      PartNumber |-> None,
      SupplierRef |-> None,
      Quantity |-> 1 ]

isvalid(self) == self.Supplier # None /\ self.Supplier # ""

(* Two generator objects made by two generator expressions: == is object   *)
(* identity, and they are two objects.                                     *)
GeneratorEq(self, other, attrs) == FALSE

Part__eq__(self, other) ==
    IF self.Supplier # other.Supplier
    THEN FALSE
    ELSE GeneratorEq(self, other, getEqual(self.Supplier))

(* < on two generator objects: TypeError in Python 3; in Python 2 the      *)
(* order of their addresses, which is byAddress here.                      *)
GeneratorLt(version, byAddress) ==
    IF version = 3 THEN "TypeError" ELSE byAddress

StrOrd(s) ==
    CASE s = "" -> 0
      [] s = "ACME" -> 1
      [] s = "C1" -> 2
      [] s = "JLCPCB" -> 3
      [] s = "LCSC" -> 4
      [] s = "MA" -> 5
      [] s = "MB" -> 6
      [] s = "P1" -> 7
      [] s = "P2" -> 8
      [] OTHER -> 9

StrLt(s, t) == StrOrd(s) < StrOrd(t)

Part__lt__(self, other, version, byAddress) ==
    IF self.Supplier # other.Supplier
    THEN IF StrLt(self.Supplier, other.Supplier) THEN "True" ELSE "False"
    ELSE GeneratorLt(version, byAddress)

FieldValues(supplier) ==
    { getFields(supplier)[i][2] : i \in DOMAIN getFields(supplier) }

truthy(v) == v # None /\ v # ""

(* The attributes after the loop of setCustomFields.                       *)
setAttrs(self, fields) ==
    [ ref |-> IF fields["ref"] # Absent /\ "ref" \in FieldValues(self.Supplier)
              THEN fields["ref"] ELSE self.ref,
      value |-> self.value,
      footprint |-> self.footprint,
      Supplier |-> self.Supplier,
      Manufacturer |->
          IF fields["Manufacturer"] # Absent
             /\ "Manufacturer" \in FieldValues(self.Supplier)
          THEN fields["Manufacturer"] ELSE self.Manufacturer,
      PartNumber |->
          IF fields["PartNumber"] # Absent
             /\ "PartNumber" \in FieldValues(self.Supplier)
          THEN fields["PartNumber"] ELSE self.PartNumber,
      SupplierRef |->
          IF fields["SupplierRef"] # Absent
             /\ "SupplierRef" \in FieldValues(self.Supplier)
          THEN fields["SupplierRef"] ELSE self.SupplierRef,
      Quantity |-> self.Quantity ]

setCustomFields(self, fields, supplierList) ==
    LET part == setAttrs(self, fields)
        equal == getEqual(part.Supplier)
        ok == \A i \in DOMAIN equal : truthy(part[equal[i]])
    IN  [ ok |-> ok,
          part |-> part,
          suppliers |->
              IF ok /\ \A i \in DOMAIN supplierList : supplierList[i] # part.Supplier
              THEN Append(supplierList, part.Supplier)
              ELSE supplierList ]

(* ------------------------------ parseXml ------------------------------ *)
RECURSIVE appendTimes(_, _, _)
appendTimes(list, part, times) ==
    IF times <= 0 THEN list ELSE appendTimes(Append(list, part), part, times - 1)

group(list, part) ==
    LET found == { i \in DOMAIN list : Part__eq__(list[i], part) }
    IN  IF found = {}
        THEN Append(list, part)
        ELSE LET exist == CHOOSE i \in found : \A j \in found : i <= j
             IN  [list EXCEPT ![exist].Quantity = @ + part.Quantity]

(* One pass of the loop of parseXml over component: the lists after it.    *)
parseComponent(component) ==
    LET same == [ exc |-> "", suppliers |-> suppliers, parts |-> parts,
                  missings |-> missings, accepted |-> accepted ]
    IN  IF PartRaises(component)
        THEN [same EXCEPT !.exc = "AttributeError"]
        ELSE
        LET part == Part(component)
        IN  IF ~isvalid(part)
            THEN [same EXCEPT !.missings = Append(missings, part.ref)]
            ELSE
            LET r == setCustomFields(part, component.fields, suppliers)
            IN  IF ~r.ok
                THEN [same EXCEPT !.missings = Append(missings, r.part.ref),
                                  !.suppliers = r.suppliers]
                ELSE [same EXCEPT
                        !.suppliers = r.suppliers,
                        !.accepted = Append(accepted, r.part),
                        !.parts = IF needGrouping(r.part.Supplier)
                                  THEN group(parts, r.part)
                                  ELSE appendTimes(parts, r.part, r.part.Quantity)]

parseXmlStep(component) ==
    /\ pc = "parse"
    /\ n < MaxComps
    /\ LET r == parseComponent(component)
       IN  /\ pc' = IF r.exc = "" THEN "parse" ELSE "failed"
           /\ error' = IF r.exc = "" THEN error ELSE [exc |-> r.exc, at |-> "parseXml"]
           /\ suppliers' = r.suppliers
           /\ parts' = r.parts
           /\ missings' = r.missings
           /\ accepted' = r.accepted
    /\ n' = n + 1
    /\ current' = component
    /\ UNCHANGED << python, path, sortedParts, leftover, files, fs, opened,
                    rewrited, console, calls >>

(* The loop of parseXml ends: parseXml returns.                            *)
parseXmlReturn ==
    /\ pc = "parse"
    /\ pc' = "main"
    /\ UNCHANGED << python, path, n, current, suppliers, parts, missings,
                    accepted, sortedParts, leftover, files, fs, opened,
                    rewrited, console, error, calls >>

(* ------------------------- sorted(), list.sort ------------------------ *)
(* sorted(suppliers): the names are distinct strings.                      *)
RECURSIVE sortedStrings(_)
sortedStrings(list) ==
    IF list = <<>>
    THEN <<>>
    ELSE LET least == CHOOSE i \in DOMAIN list :
                          \A j \in DOMAIN list : ~StrLt(list[j], list[i])
         IN  <<list[least]>> \o
             sortedStrings([i \in 1..(Len(list) - 1) |->
                               IF i < least THEN list[i] ELSE list[i + 1]])

(* The pairs of list positions whose Parts __lt__ compares by generator,   *)
(* and the outcomes an interpreter can give for them.                      *)
SamePairs(list) ==
    { pr \in (DOMAIN list) \X (DOMAIN list) :
        pr[1] # pr[2] /\ list[pr[1]].Supplier = list[pr[2]].Supplier }

Addresses(list, version) ==
    IF version = 3
    THEN { [pr \in SamePairs(list) |-> "False"] }
    ELSE [SamePairs(list) -> {"True", "False"}]

Comparisons(list, version, addr) ==
    [ pr \in (DOMAIN list) \X (DOMAIN list) |->
        Part__lt__(list[pr[1]], list[pr[2]], version,
                   IF pr \in DOMAIN addr THEN addr[pr] ELSE "False") ]

(* list.sort on fewer than 64 items: count_run, then binarysort.  a is the *)
(* list of positions being sorted; seen collects the comparisons made.     *)
RECURSIVE count_run(_, _, _, _)
count_run(a, cmp, k, descending) ==
    IF k >= Len(a)
    THEN k
    ELSE IF (cmp[<<a[k + 1], a[k]>>] = "True") = descending
         THEN count_run(a, cmp, k + 1, descending)
         ELSE k

reverse_slice(a, k) ==
    [i \in 1..Len(a) |-> IF i <= k THEN a[k + 1 - i] ELSE a[i]]

RECURSIVE bisect(_, _, _, _, _, _)
bisect(a, cmp, pivot, l, r, seen) ==
    IF l >= r
    THEN [l |-> l, seen |-> seen]
    ELSE LET p == l + ((r - l) \div 2)
             pr == <<pivot, a[p]>>
         IN  IF cmp[pr] = "True"
             THEN bisect(a, cmp, pivot, l, p, seen \cup {pr})
             ELSE bisect(a, cmp, pivot, p + 1, r, seen \cup {pr})

insertAt(a, start, l) ==
    [i \in 1..Len(a) |->
        IF i < l THEN a[i]
        ELSE IF i = l THEN a[start]
        ELSE IF i <= start THEN a[i - 1]
        ELSE a[i]]

RECURSIVE binarysort(_, _, _, _)
binarysort(a, cmp, start, seen) ==
    IF start > Len(a)
    THEN [a |-> a, seen |-> seen]
    ELSE LET b == bisect(a, cmp, a[start], 1, start, seen)
         IN  binarysort(insertAt(a, start, b.l), cmp, start + 1, b.seen)

(* sorted(parts): the sorted list, or the TypeError of the first           *)
(* comparison that raised.                                                 *)
sortedList(list, version, addr) ==
    IF Len(list) < 2
    THEN Returned(list)
    ELSE LET cmp == Comparisons(list, version, addr)
             a == [i \in 1..Len(list) |-> i]
             descending == cmp[<<2, 1>>] = "True"
             k == count_run(a, cmp, 2, descending)
             last == IF k < Len(list) THEN k ELSE Len(list) - 1
             run == { <<i + 1, i>> : i \in 1..last }
             s == binarysort(IF descending THEN reverse_slice(a, k) ELSE a,
                             cmp, k + 1, run)
         IN  IF \E pr \in s.seen : cmp[pr] = "TypeError"
             THEN Raised("TypeError")
             ELSE Returned([i \in 1..Len(list) |-> list[s.a[i]]])

(* ------------------------------ writeCsv ------------------------------ *)
Digit(d) ==
    CASE d = 0 -> "0" [] d = 1 -> "1" [] d = 2 -> "2" [] d = 3 -> "3"
      [] d = 4 -> "4" [] d = 5 -> "5" [] d = 6 -> "6" [] d = 7 -> "7"
      [] d = 8 -> "8" [] OTHER -> "9"

RECURSIVE str(_)
str(i) == IF i < 10 THEN Digit(i) ELSE str(i \div 10) \o Digit(i % 10)

(* The cell csv writes for an attribute: None is written as nothing.       *)
Cell(part, attr) ==
    IF attr = "Quantity"
    THEN str(part.Quantity)
    ELSE IF part[attr] = None THEN "" ELSE part[attr]

Row(supplier, part) ==
    [i \in DOMAIN getFields(supplier) |-> Cell(part, getFields(supplier)[i][2])]

HeaderRow(supplier) ==
    [i \in DOMAIN getFields(supplier) |-> getFields(supplier)[i][1]]

(* writeRows with an if for the while: at most one row per supplier.       *)
writeRowsOnce(supplier, list, rows) ==
    IF Len(list) > 0 /\ list[1].Supplier = supplier
    THEN [rows |-> Append(rows, Row(supplier, list[1])), parts |-> Tail(list)]
    ELSE [rows |-> rows, parts |-> list]

(* The while loop of writeCsv: the rows written and the list left.         *)
RECURSIVE writeRows(_, _, _)
writeRows(supplier, list, rows) ==
    IF Len(list) > 0 /\ list[1].Supplier = supplier
    THEN writeRows(supplier, Tail(list), Append(rows, Row(supplier, list[1])))
    ELSE [rows |-> rows, parts |-> list]

RECURSIVE writeCsv(_, _, _, _)
writeCsv(supplierList, list, prefix, written) ==
    IF supplierList = <<>>
    THEN [files |-> written, parts |-> list]
    ELSE LET supplier == Head(supplierList)
             file == getOutput(prefix, supplier, g_bomext)
             w == writeRows(supplier, list, <<HeaderRow(supplier)>>)
         IN  writeCsv(Tail(supplierList), w.parts, prefix,
                      (file :> w.rows) @@ written)

(* __main__, line 256: writeCsv(sorted(suppliers), sorted(parts), path)    *)
mainWriteCsv ==
    /\ pc = "main"
    /\ \E addr \in Addresses(parts, python) :
         LET s == sortedList(parts, python, addr)
             w == writeCsv(sortedStrings(suppliers), s.val, path, files)
         IN  IF s.exc # ""
             THEN /\ pc' = "failed"
                  /\ error' = [exc |-> s.exc, at |-> "sorted"]
                  /\ UNCHANGED << sortedParts, leftover, files >>
             ELSE /\ pc' = "report"
                  /\ sortedParts' = s.val
                  /\ leftover' = w.parts
                  /\ files' = w.files
                  /\ UNCHANGED error
    /\ UNCHANGED << python, path, n, current, suppliers, parts, missings,
                    accepted, fs, opened, rewrited, console, calls >>

(* ------------------------- __main__: the report ----------------------- *)
Stars == "*******************************************************************************"

RECURSIVE join(_, _)
join(sep, list) ==
    IF list = <<>> THEN ""
    ELSE IF Len(list) = 1 THEN list[1]
    ELSE list[1] \o sep \o join(sep, Tail(list))

(* lines 258-268; ", ".join raises TypeError on an item that is None.      *)
mainReport ==
    /\ pc = "report"
    /\ LET bom == <<"", "Generating BOM csv file for:">> \o
                  [i \in DOMAIN suppliers |->
                      suppliers[i] \o ": " \o getOutput(path, suppliers[i], g_bomext)]
           bad == \E i \in DOMAIN missings : missings[i] = None
       IN  IF Len(missings) = 0
           THEN /\ console' = console \o bom
                /\ pc' = "rewrite"
                /\ UNCHANGED error
           ELSE IF bad
           THEN /\ console' = console \o bom \o <<"", Stars, "Ignoring parts:">>
                /\ pc' = "failed"
                /\ error' = [exc |-> "TypeError", at |-> "join"]
           ELSE /\ console' = console \o bom \o
                       <<"", Stars, "Ignoring parts:", join(", ", missings), Stars>>
                /\ pc' = "rewrite"
                /\ UNCHANGED error
    /\ UNCHANGED << python, path, n, current, suppliers, parts, missings,
                    accepted, sortedParts, leftover, files, fs, opened,
                    rewrited, calls >>

(* ------------------------ rewriteCsv, copyCsv ------------------------- *)
isfile(fsys, name) == name \in DOMAIN fsys

(* setHeader with the keys of headers taken as positions counted from 1.   *)
setHeaderFromOne(header, headers) ==
    IF \E i \in DOMAIN headers : i >= Len(header)
    THEN Raised("IndexError")
    ELSE Returned([j \in 1..Len(header) |->
                      IF j \in DOMAIN headers THEN headers[j] ELSE header[j]])

(* header[i] = value for every item of headers, or IndexError.             *)
setHeader(header, headers) ==
    IF \E i \in DOMAIN headers : i >= Len(header)
    THEN Raised("IndexError")
    ELSE Returned([j \in 1..Len(header) |->
                      IF (j - 1) \in DOMAIN headers THEN headers[j - 1]
                      ELSE header[j]])

(* The rows copyCsv has written when it returns or raises: open(output,    *)
(* 'w') has made the file before the first row is read.                    *)
copyCsv(rows, headers) ==
    IF rows = <<>>
    THEN [exc |-> "StopIteration", val |-> <<>>]
    ELSE LET header == setHeader(rows[1], headers)
         IN  IF header.exc # ""
             THEN [exc |-> header.exc, val |-> <<>>]
             ELSE Returned(<<header.val>> \o Tail(rows))

(* rewriteOne without the break: every position file that exists is       *)
(* copied.                                                                 *)
RECURSIVE rewriteOneNoBreak(_, _, _, _, _)
rewriteOneNoBreak(supplier, prefix, fsys, i, st) ==
    IF i > Len(getInputs(prefix)) \/ st.exc # ""
    THEN st
    ELSE LET input == getInputs(prefix)[i]
         IN  IF isfile(fsys, input)
             THEN LET output == getOutput(prefix, supplier, g_cplext)
                      copy == copyCsv(fsys[input], getHeaders(supplier))
                      done == [st EXCEPT
                                 !.files = (output :> copy.val) @@ st.files,
                                 !.opened = Append(st.opened, <<supplier, input>>)]
                  IN  IF copy.exc # ""
                      THEN [done EXCEPT !.exc = copy.exc]
                      ELSE rewriteOneNoBreak(supplier, prefix, fsys, i + 1,
                             [done EXCEPT
                                !.rewrited = [k \in DOMAIN st.rewrited |->
                                    IF st.rewrited[k][1] = supplier
                                    THEN <<supplier, TRUE>> ELSE st.rewrited[k]]])
             ELSE rewriteOneNoBreak(supplier, prefix, fsys, i + 1, st)

(* The loop over getInputs(path) for one supplier, from candidate i on.    *)
RECURSIVE rewriteOne(_, _, _, _, _)
rewriteOne(supplier, prefix, fsys, i, st) ==
    IF i > Len(getInputs(prefix))
    THEN st
    ELSE LET input == getInputs(prefix)[i]
         IN  IF isfile(fsys, input)
             THEN LET output == getOutput(prefix, supplier, g_cplext)
                      copy == copyCsv(fsys[input], getHeaders(supplier))
                      done == [st EXCEPT
                                 !.files = (output :> copy.val) @@ st.files,
                                 !.opened = Append(st.opened, <<supplier, input>>)]
                  IN  IF copy.exc # ""
                      THEN [done EXCEPT !.exc = copy.exc]
                      ELSE [done EXCEPT
                              !.rewrited = [k \in DOMAIN st.rewrited |->
                                  IF st.rewrited[k][1] = supplier
                                  THEN <<supplier, TRUE>> ELSE st.rewrited[k]]]
             ELSE rewriteOne(supplier, prefix, fsys, i + 1, st)

(* rewriteCsv that records a status only for a supplier it copied a file  *)
(* for.                                                                    *)
RECURSIVE rewriteCsvOnSuccess(_, _, _, _)
rewriteCsvOnSuccess(supplierList, prefix, fsys, st) ==
    IF supplierList = <<>> \/ st.exc # ""
    THEN st
    ELSE LET supplier == Head(supplierList)
             found == \E i \in DOMAIN getInputs(prefix) :
                          isfile(fsys, getInputs(prefix)[i])
         IN  IF generateCpl(supplier) /\ found
             THEN rewriteCsvOnSuccess(Tail(supplierList), prefix, fsys,
                      rewriteOne(supplier, prefix, fsys, 1,
                          [st EXCEPT !.rewrited =
                              Append(st.rewrited, <<supplier, FALSE>>)]))
             ELSE rewriteCsvOnSuccess(Tail(supplierList), prefix, fsys, st)

(* rewrited is the dict as the list of its items, in insertion order.      *)
RECURSIVE rewriteCsv(_, _, _, _)
rewriteCsv(supplierList, prefix, fsys, st) ==
    IF supplierList = <<>> \/ st.exc # ""
    THEN st
    ELSE LET supplier == Head(supplierList)
         IN  IF generateCpl(supplier)
             THEN rewriteCsv(Tail(supplierList), prefix, fsys,
                      rewriteOne(supplier, prefix, fsys, 1,
                          [st EXCEPT !.rewrited =
                              Append(st.rewrited, <<supplier, FALSE>>)]))
             ELSE rewriteCsv(Tail(supplierList), prefix, fsys, st)

(* __main__, line 270, on the position files fsys.                         *)
mainRewriteCsv(fsys) ==
    /\ pc = "rewrite"
    /\ fs' = fsys
    /\ LET r == rewriteCsv(suppliers, path, fsys,
                    [exc |-> "", files |-> files, opened |-> opened,
                     rewrited |-> <<>>])
       IN  /\ files' = r.files
           /\ opened' = r.opened
           /\ rewrited' = r.rewrited
           /\ pc' = IF r.exc = "" THEN "cplreport" ELSE "failed"
           /\ error' = IF r.exc = "" THEN error
                       ELSE [exc |-> r.exc, at |-> "copyCsv"]
    /\ UNCHANGED << python, path, n, current, suppliers, parts, missings,
                    accepted, sortedParts, leftover, console, calls >>

(* lines 271-283                                                           *)
cplLines(prefix, item) ==
    IF item[2]
    THEN << item[1] \o ": " \o getOutput(prefix, item[1], g_cplext) \o ":" >>
    ELSE <<"", Stars, "Error can't retrieve a position file like:">>
         \o getInputs(prefix) \o <<Stars>>

RECURSIVE cplReport(_, _)
cplReport(prefix, items) ==
    IF items = <<>> THEN <<>>
    ELSE cplLines(prefix, Head(items)) \o cplReport(prefix, Tail(items))

mainCplReport ==
    /\ pc = "cplreport"
    /\ console' = console \o
          (IF Len(rewrited) > 0
           THEN <<"", "Generating CPL (Component Placement List) csv file for:">>
           ELSE <<>>)
          \o cplReport(path, rewrited)
    /\ pc' = "done"
    /\ UNCHANGED << python, path, n, current, suppliers, parts, missings,
                    accepted, sortedParts, leftover, files, fs, opened,
                    rewrited, error, calls >>

(* --------------------------- position files --------------------------- *)
HeaderCell(i) ==
    CASE i = 1 -> "Ref" [] i = 2 -> "Val" [] i = 3 -> "Package"
      [] i = 4 -> "PosX" [] i = 5 -> "PosY" [] i = 6 -> "Rot"
      [] i = 7 -> "Side" [] OTHER -> "Extra"

Header(len) == [i \in 1..len |-> HeaderCell(i)]

DataRows ==
    { <<"R1", "10k", "R_0603", "1.0", "2.0", "90.0", "top">>,
      <<"Designator">>,
      <<>> }

RowLists == UNION { [1..k -> DataRows] : k \in 0..MaxRows }

(* Every position file of the model: no row at all, or a header of 0 to    *)
(* MaxCols cells and up to MaxRows data rows.                              *)
PosFiles ==
    { <<>> } \cup { <<Header(len)>> \o rows : len \in 0..MaxCols, rows \in RowLists }

GoodPosFile == <<Header(7), <<"R1", "10k", "R_0603", "1.0", "2.0", "90.0", "top">> >>
ShortPosFile == <<Header(3)>>

FileSystems(prefix, contents) ==
    LET names == { getInputs(prefix)[i] : i \in DOMAIN getInputs(prefix) }
    IN  UNION { [present -> contents] : present \in SUBSET names }

Init ==
    /\ pc = "parse"
    /\ python \in PythonVersions
    /\ path \in Prefixes
    /\ n = 0
    /\ current = NoComponent
    /\ suppliers = <<>>
    /\ parts = <<>>
    /\ missings = <<>>
    /\ accepted = <<>>
    /\ sortedParts = <<>>
    /\ leftover = <<>>
    /\ files = <<>>
    /\ fs = <<>>
    /\ opened = <<>>
    /\ rewrited = <<>>
    /\ console = <<>>
    /\ error = NoError
    /\ calls = <<>>

(* The whole run, python plugin.py netlist.xml prefix.                     *)
ReadComponent == \E component \in MainComponents : parseXmlStep(component)

RewriteCpl == \E fsys \in FileSystems(path, {GoodPosFile}) : mainRewriteCsv(fsys)

Next ==
    \/ ReadComponent
    \/ parseXmlReturn
    \/ mainWriteCsv
    \/ mainReport
    \/ RewriteCpl
    \/ mainCplReport

Spec == Init /\ [][Next]_vars

(* parseXml alone, on the netlists of ParseComponents.                     *)
ParseNetlist == \E component \in ParseComponents : parseXmlStep(component)

NextParse == ParseNetlist \/ parseXmlReturn

SpecParse == Init /\ [][NextParse]_vars

(* rewriteCsv and the report after it, for every list of discovered        *)
(* suppliers and every set of position files.                              *)
VendorNames == {"ACME", "JLCPCB", "LCSC"}

SupplierLists ==
    { list \in UNION { [1..k -> VendorNames] : k \in 0..Cardinality(VendorNames) } :
        \A i, j \in DOMAIN list : i # j => list[i] # list[j] }

InitCpl ==
    /\ pc = "rewrite"
    /\ python \in PythonVersions
    /\ path \in Prefixes
    /\ n = 0
    /\ current = NoComponent
    /\ suppliers \in SupplierLists
    /\ parts = <<>>
    /\ missings = <<>>
    /\ accepted = <<>>
    /\ sortedParts = <<>>
    /\ leftover = <<>>
    /\ files = <<>>
    /\ fs = <<>>
    /\ opened = <<>>
    /\ rewrited = <<>>
    /\ console = <<>>
    /\ error = NoError
    /\ calls = <<>>

RewriteAnyCpl ==
    \E fsys \in FileSystems(path, {GoodPosFile, ShortPosFile, <<>>}) :
        mainRewriteCsv(fsys)

NextCpl == RewriteAnyCpl \/ mainCplReport

SpecCpl == InitCpl /\ [][NextCpl]_vars

(* copyCsv through rewriteCsv, on one position file of any content.        *)
InitCopy ==
    /\ pc = "rewrite"
    /\ python \in PythonVersions
    /\ path \in Prefixes
    /\ n = 0
    /\ current = NoComponent
    /\ suppliers \in { <<"JLCPCB">>, <<"LCSC", "JLCPCB">> }
    /\ parts = <<>>
    /\ missings = <<>>
    /\ accepted = <<>>
    /\ sortedParts = <<>>
    /\ leftover = <<>>
    /\ files = <<>>
    /\ fs = <<>>
    /\ opened = <<>>
    /\ rewrited = <<>>
    /\ console = <<>>
    /\ error = NoError
    /\ calls = <<>>

RewriteOnePosFile ==
    \E i \in DOMAIN getInputs(path), rows \in PosFiles :
        mainRewriteCsv(getInputs(path)[i] :> rows)

NextCopy == RewriteOnePosFile \/ mainCplReport

SpecCopy == InitCopy /\ [][NextCopy]_vars

(* The registry functions, called on registered and unregistered names.    *)
LookupNames ==
    {"getEqual", "getSorted", "needGrouping", "getFields", "generateCpl", "getHeaders"}

LookupVendors == {"Default", "JLCPCB", "LCSC", "ACME", ""}

lookup(fn, supplier) ==
    CASE fn = "getEqual" -> getEqualCall(supplier)
      [] fn = "getSorted" -> getSortedCall(supplier)
      [] fn = "needGrouping" -> needGroupingCall(supplier)
      [] fn = "getFields" -> getFieldsCall(supplier)
      [] fn = "generateCpl" -> generateCplCall(supplier)
      [] OTHER -> getHeadersCall(supplier)

InitRegistry ==
    /\ pc = "lookup"
    /\ python \in PythonVersions
    /\ path \in Prefixes
    /\ n = 0
    /\ current = NoComponent
    /\ suppliers = <<>>
    /\ parts = <<>>
    /\ missings = <<>>
    /\ accepted = <<>>
    /\ sortedParts = <<>>
    /\ leftover = <<>>
    /\ files = <<>>
    /\ fs = <<>>
    /\ opened = <<>>
    /\ rewrited = <<>>
    /\ console = <<>>
    /\ error = NoError
    /\ calls = <<>>

registryLookup ==
    /\ pc = "lookup"
    /\ Len(calls) < MaxCalls
    /\ \E fn \in LookupNames, supplier \in LookupVendors :
         LET r == lookup(fn, supplier)
         IN  calls' = Append(calls, [fn |-> fn, supplier |-> supplier,
                                     exc |-> r.exc, val |-> r.val])
    /\ UNCHANGED << pc, python, path, n, current, suppliers, parts, missings,
                    accepted, sortedParts, leftover, files, fs, opened,
                    rewrited, console, error >>

NextRegistry == registryLookup

SpecRegistry == InitRegistry /\ [][NextRegistry]_vars

(* =============================== claims =============================== *)
Grouped(part) == needGrouping(part.Supplier)

SameLine(p, q) ==
    /\ p.Supplier = q.Supplier
    /\ p.PartNumber = q.PartNumber
    /\ p.SupplierRef = q.SupplierRef

(* C1 (SpecParse): for every accepted component of a grouped vendor, parts *)
(* holds exactly one Part with its (PartNumber, SupplierRef), and that     *)
(* Part's Quantity is the number of accepted components carrying that      *)
(* combination.                                                            *)
C1_GroupingAccumulates ==
    \A i \in DOMAIN accepted :
        Grouped(accepted[i]) =>
            LET rows == { j \in DOMAIN parts : SameLine(parts[j], accepted[i]) }
                same == { k \in DOMAIN accepted : SameLine(accepted[k], accepted[i]) }
            IN  /\ Cardinality(rows) = 1
                /\ \A j \in rows : parts[j].Quantity = Cardinality(same)

SupplierOf(component) == component.fields["Supplier"]

Unset(text) == text \in {Absent, None}

(* C3 (SpecParse): reading a component that has no Supplier field, or an   *)
(* empty one, appends its reference designator to missings, leaves parts   *)
(* and suppliers as they were, and the loop goes on.                       *)
C3_ValidityGate ==
    [][ (n' = n + 1 /\ Unset(SupplierOf(current')))
        => /\ pc' = "parse"
           /\ missings' = Append(missings, current'.ref)
           /\ parts' = parts
           /\ suppliers' = suppliers ]_vars

DefaultOrLcsc(text) == upper(text) = "LCSC" \/ upper(text) \notin DOMAIN g_suppliers

(* C4 (SpecParse): reading a component whose Supplier is set, whose        *)
(* profile is Default or LCSC and whose PartNumber or SupplierRef is       *)
(* missing or empty appends its reference designator to missings and       *)
(* leaves parts and suppliers as they were.                                *)
C4_RequiredFieldGate ==
    [][ ( /\ n' = n + 1
          /\ ~Unset(SupplierOf(current'))
          /\ DefaultOrLcsc(SupplierOf(current'))
          /\ \/ Unset(current'.fields["PartNumber"])
             \/ Unset(current'.fields["SupplierRef"]) )
        => /\ missings' = Append(missings, current'.ref)
           /\ parts' = parts
           /\ suppliers' = suppliers ]_vars

Unregistered(supplier) == supplier \notin DOMAIN g_suppliers

(* C5 (SpecRegistry): every lookup returns without raising; getHeaders     *)
(* returns an empty mapping for LCSC and for an unregistered vendor;       *)
(* generateCpl returns false for an unregistered vendor.                   *)
C5_LookupsTotal ==
    \A i \in DOMAIN calls :
        /\ calls[i].exc = ""
        /\ (calls[i].fn = "getHeaders"
              /\ (calls[i].supplier = "LCSC" \/ Unregistered(calls[i].supplier)))
           => DOMAIN calls[i].val = {}
        /\ (calls[i].fn = "generateCpl" /\ Unregistered(calls[i].supplier))
           => calls[i].val = FALSE

(* writeCsv has returned.                                                  *)
Written ==
    \/ pc \in {"report", "rewrite", "cplreport", "done"}
    \/ pc = "failed" /\ error.at \in {"join", "copyCsv"}

SupplierSet == { suppliers[i] : i \in DOMAIN suppliers }

BomFile(supplier) == getOutput(path, supplier, g_bomext)

(* The data rows of a supplier's BOM file; none when there is no file.     *)
BomRows(supplier) ==
    IF BomFile(supplier) \in DOMAIN files THEN Tail(files[BomFile(supplier)]) ELSE <<>>

(* The column of a supplier's BOM file that holds attribute attr.          *)
Column(supplier, attr) ==
    CHOOSE i \in DOMAIN getFields(supplier) : getFields(supplier)[i][2] = attr

RECURSIVE KeysLe(_, _, _, _)
KeysLe(supplier, keys, r1, r2) ==
    IF keys = <<>>
    THEN TRUE
    ELSE LET c == Column(supplier, Head(keys))
         IN  \/ StrLt(r1[c], r2[c])
             \/ r1[c] = r2[c] /\ KeysLe(supplier, Tail(keys), r1, r2)

Contiguous(list) ==
    \A i, j, k \in DOMAIN list :
        (i < j /\ j < k /\ list[i].Supplier = list[k].Supplier)
            => list[j].Supplier = list[i].Supplier

(* C2 (Spec): sorting the accepted parts never ends the run, and once the  *)
(* BOM files are written the rows of each supplier's file are in ascending *)
(* order of its sort keys, earlier keys first, and the parts of one        *)
(* supplier are contiguous in the sorted list.                             *)
C2_SortOrder ==
    /\ ~(pc = "failed" /\ error.at = "sorted")
    /\ Written =>
        /\ Contiguous(sortedParts)
        /\ \A supplier \in SupplierSet :
             \A i, j \in DOMAIN BomRows(supplier) :
                 i < j => KeysLe(supplier, getSorted(supplier),
                                 BomRows(supplier)[i], BomRows(supplier)[j])

CountOf(list, supplier) ==
    Cardinality({ i \in DOMAIN list : list[i].Supplier = supplier })

(* parseXml has returned and the run has ended.                            *)
Ended == pc = "done" \/ (pc = "failed" /\ error.at # "parseXml")

(* C6 (Spec): when the run on a netlist of accepted JLCPCB components has  *)
(* ended, the JLCPCB BOM file holds as many rows as components were        *)
(* accepted.                                                               *)
C6_NonGroupedExpansion ==
    (Ended /\ missings = <<>> /\ CountOf(accepted, "JLCPCB") = Len(accepted))
        => Len(BomRows("JLCPCB")) = CountOf(accepted, "JLCPCB")

SupplierFirst(list) ==
    \A i, j \in DOMAIN list :
        i < j => ~StrLt(list[j].Supplier, list[i].Supplier)

PartsOf(list, supplier) == SelectSeq(list, LAMBDA p : p.Supplier = supplier)

(* C10 (Spec): once writeCsv has returned from a part list sorted supplier *)
(* first, there is a BOM file for every discovered supplier, the data rows *)
(* of each file are the rows of that supplier's parts, one per part and in *)
(* order, every part belongs to a discovered supplier, and the list is     *)
(* consumed to empty.                                                      *)
C10_BomPartition ==
    (Written /\ SupplierFirst(sortedParts)) =>
        /\ \A supplier \in SupplierSet : BomFile(supplier) \in DOMAIN files
        /\ \A supplier \in SupplierSet :
             LET mine == PartsOf(sortedParts, supplier)
             IN  BomRows(supplier) = [i \in DOMAIN mine |-> Row(supplier, mine[i])]
        /\ \A i \in DOMAIN sortedParts : sortedParts[i].Supplier \in SupplierSet
        /\ leftover = <<>>

(* C10 witness: two suppliers, one of them with two parts, all written.    *)
C10_Witness ==
    /\ pc = "report"
    /\ SupplierFirst(sortedParts)
    /\ Cardinality(SupplierSet) >= 2
    /\ \E supplier \in SupplierSet : Len(BomRows(supplier)) >= 2
    /\ leftover = <<>>

(* rewriteCsv has returned or raised.                                      *)
Rewritten ==
    \/ pc \in {"cplreport", "done"}
    \/ pc = "failed" /\ error.at = "copyCsv"

(* The three conventional position files, in the order of the search.      *)
ClaimedInputs ==
    << path \o "-all-pos.csv", path \o "-top-pos.csv", path \o "-bottom-pos.csv" >>

Existing == { i \in DOMAIN ClaimedInputs : ClaimedInputs[i] \in DOMAIN fs }

FirstExisting == CHOOSE i \in Existing : \A j \in Existing : i <= j

CplSuppliers == { supplier \in SupplierSet : generateCpl(supplier) }

OpenedFor(supplier) == SelectSeq(opened, LAMBDA o : o[1] = supplier)

CplFile(supplier) == getOutput(path, supplier, g_cplext)

(* C7 (SpecCpl): for every supplier that generates a CPL, rewriteCsv opens *)
(* no position file when none exists, and otherwise opens exactly one: the *)
(* first that exists of all-pos, top-pos, bottom-pos.                      *)
C7_CplSearchPriority ==
    Rewritten =>
        \A supplier \in CplSuppliers :
            IF Existing = {}
            THEN OpenedFor(supplier) = <<>>
            ELSE OpenedFor(supplier) = << <<supplier, ClaimedInputs[FirstExisting]>> >>

(* C7 witness: all-pos and top-pos both exist and all-pos was copied.      *)
C7_Witness ==
    /\ pc = "done"
    /\ "JLCPCB" \in SupplierSet
    /\ Existing = {1, 2}
    /\ opened = << <<"JLCPCB", ClaimedInputs[1]>> >>
    /\ CplFile("JLCPCB") \in DOMAIN files

ErrorLine == "Error can't retrieve a position file like:"

(* C8 (SpecCpl): when no position file exists, rewriteCsv does not raise,  *)
(* writes no CPL file for a supplier that generates one and records False  *)
(* for it, and the finished report names all-pos, top-pos, bottom-pos, in  *)
(* that order, between the error line and the closing delimiter.           *)
C8_CplAbsence ==
    (Rewritten /\ Existing = {}) =>
        \A supplier \in CplSuppliers :
            /\ pc # "failed"
            /\ CplFile(supplier) \notin DOMAIN files
            /\ \E i \in DOMAIN rewrited : rewrited[i] = <<supplier, FALSE>>
            /\ pc = "done" =>
                 \E k \in DOMAIN console :
                     /\ console[k] = ErrorLine
                     /\ k + 4 <= Len(console)
                     /\ SubSeq(console, k + 1, k + 3) = ClaimedInputs
                     /\ console[k + 4] = Stars

(* C8 witness: a finished run with JLCPCB discovered and no position file. *)
C8_Witness ==
    /\ pc = "done"
    /\ "JLCPCB" \in SupplierSet
    /\ Existing = {}
    /\ \E k \in DOMAIN console : console[k] = ErrorLine

(* The position file copyCsv opened, and the CPL file it wrote.            *)
Source == fs[opened[1][2]]
Copy == files[CplFile(opened[1][1])]

Overridden(header) ==
    [j \in DOMAIN header |->
        CASE j = 1 -> "Designator"
          [] j = 4 -> "Mid X"
          [] j = 5 -> "Mid Y"
          [] j = 6 -> "Rotation"
          [] j = 7 -> "Layer"
          [] OTHER -> header[j]]

Copied ==
    /\ pc # "failed"
    /\ Len(Copy) = Len(Source)
    /\ Copy[1] = Overridden(Source[1])
    /\ \A i \in 2..Len(Source) : Copy[i] = Source[i]

(* C9 as claimed (SpecCopy): every position file that has a header row is  *)
(* copied with the JLCPCB overrides in the header and its data rows as     *)
(* they were.                                                              *)
C9_AnyHeader ==
    (Rewritten /\ opened # <<>> /\ Len(Source) >= 1) => Copied

(* C9 (SpecCopy), amended: every position file whose header row has at     *)
(* least 7 cells is copied with cells 0, 3, 4, 5, 6 of the header replaced *)
(* by Designator, Mid X, Mid Y, Rotation, Layer, the other header cells    *)
(* and every data row as they were, in the same order.                     *)
C9_CplHeaderOverride ==
    (Rewritten /\ opened # <<>> /\ Len(Source) >= 1 /\ Len(Source[1]) >= 7)
        => Copied

(* C9 witness: a header of 8 cells and two different data rows, copied.    *)
C9_Witness ==
    /\ pc = "done"
    /\ opened # <<>>
    /\ Len(Source) = 3
    /\ Len(Source[1]) = 8
    /\ Source[2] # Source[3]
    /\ Len(Source[2]) = 7
    /\ Copy[1][8] = "Extra"

====
